---- MODULE Spec2Model ----
(***************************************************************************)
(* Model of handler.py of the Google News tool: execute() fetches a list   *)
(* of articles (with one retry), removes articles by normalized URL,       *)
(* merges near-duplicate titles, reranks and truncates to the limit.       *)
(*                                                                         *)
(* Representation.                                                         *)
(*   - An article is a record with the fields of _normalize_article's      *)
(*     result except "date", which no stage of the pipeline reads.         *)
(*   - A title is the sequence of its whitespace-separated tokens.         *)
(*   - A url is a sequence of tokens; "?", "#" and ";" are the delimiter   *)
(*     characters urlparse splits on, every other token is opaque text.    *)
(*   - published_at is a sequence of digits (a string compared             *)
(*     lexicographically, the empty one lowest).                           *)
(*   - description and image_url are strings; only len() and truthiness    *)
(*     are read.                                                           *)
(*   - Sequence indices are 1-based: index k here is Python index k-1.     *)
(***************************************************************************)
EXTENDS Integers, Sequences, FiniteSets, TLC

VARIABLES
    params,            \* execute's params: [query, limit]; limit <<>> is absent
    pc,                \* position in execute
    attempt,           \* _fetch_with_retry: loop variable (0-based as in the code)
    retry_used,        \* _fetch_with_retry: retry_used
    last_error,        \* _fetch_with_retry: last_error, <<>> is None
    raw_articles,      \* execute: raw_articles
    fetch_error,       \* execute: fetch_error, <<>> is None
    url_deduped,       \* execute: url_deduped (the list _dedup_by_title scans)
    i,                 \* _dedup_by_title: outer index
    j,                 \* _dedup_by_title: inner index
    used,              \* _dedup_by_title: used
    article,           \* _dedup_by_title: article (the current representative)
    words_i,           \* _dedup_by_title: words_i
    also_reported_by,  \* _dedup_by_title: also_reported_by
    deduplicated,      \* _dedup_by_title: deduplicated
    ranked,            \* execute: ranked
    response,          \* execute's return value, <<>> before it returns
    rep,               \* history: index in url_deduped of the current representative
    members,           \* history: indices merged into the current cluster
    log,               \* history: per emitted story, its [rep, members]
    outcomes           \* history: per fetch attempt made, its [kind, result]

vars == << params, pc, attempt, retry_used, last_error, raw_articles,
           fetch_error, url_deduped, i, j, used, article, words_i,
           also_reported_by, deduplicated, ranked, response, rep, members, log,
           outcomes >>

----------------------------------------------------------------------------
(* Bounds of the model *)

MaxArticles == 3

----------------------------------------------------------------------------
(* Generic helpers *)

Min(a, b) == IF a < b THEN a ELSE b
Max(a, b) == IF a > b THEN a ELSE b

Range(s) == { s[k] : k \in 1..Len(s) }

\* Python's string comparison on the digit-sequence model of a string:
\* lexicographic, a proper prefix is smaller.
RECURSIVE StrLess(_, _)
StrLess(s, t) ==
    IF t = <<>> THEN FALSE
    ELSE IF s = <<>> THEN TRUE
    ELSE IF Head(s) # Head(t) THEN Head(s) < Head(t)
    ELSE StrLess(Tail(s), Tail(t))

----------------------------------------------------------------------------
(* Title words and similarity *)

_STOP_WORDS ==
    { "the", "a", "an", "in", "on", "at", "to", "for", "of", "is", "are", "was",
      "were", "and", "or", "but", "not", "with", "from", "by", "as", "it", "its",
      "this", "that", "has", "have", "had", "be", "been", "will", "would", "can",
      "could", "may", "might", "do", "does", "did", "up", "out", "over", "after",
      "into", "than", "how", "what", "when", "who", "all", "more", "about" }

\* title.lower() followed by re.sub(r"[^\w\s]", "", ...), on one token: the
\* tokens of the model's vocabulary that carry an upper-case letter or a
\* punctuation character are listed, every other token is unchanged.
CleanToken(tok) ==
    CASE tok = "Fed"      -> "fed"
      [] tok = "Federal"  -> "federal"
      [] tok = "Reserve"  -> "reserve"
      [] tok = "The"      -> "the"
      [] tok = "Aaa"      -> "aaa"
      [] tok = "bbb,"     -> "bbb"
      [] tok = "-"        -> ""
      [] OTHER            -> tok

\* The condition of the comprehension
\* {w for w in words if w not in _STOP_WORDS and len(w) > 2}; str.split()
\* never yields an empty word.
Significant(w) == w # "" /\ w \notin _STOP_WORDS /\ Len(w) > 2

_title_words(title) ==
    { w \in { CleanToken(title[k]) : k \in 1..Len(title) } : Significant(w) }

\* _jaccard returns a float; it is modelled as the exact fraction <<num, den>>.
_jaccard(a, b) ==
    IF a = {} \/ b = {} THEN << 0, 1 >>
    ELSE << Cardinality(a \cap b), Cardinality(a \cup b) >>

\* The threshold test with >= in place of >.
OverHalf_AtLeastHalf(f) == 2 * f[1] >= f[2]

\* f > 0.5 for a fraction f = <<num, den>> with den > 0.
OverHalf(f) == 2 * f[1] > f[2]

----------------------------------------------------------------------------
(* URL deduplication *)

UrlDelimiters == { "?", "#", ";" }

\* A normalization that keeps query string, fragment and params.
_normalize_url_KeepAll(url) == url

\* urlparse splits off the fragment at the first "#", the query at the first
\* "?" and the params at the first ";" of the last path segment; urlunparse
\* then rebuilds scheme, netloc and path only. On the token model that is the
\* prefix before the first delimiter token. (urlparse raises on none of the
\* urls of the model, so the except branch returning url is not taken.)
RECURSIVE _normalize_url(_)
_normalize_url(url) ==
    IF url = <<>> \/ Head(url) \in UrlDelimiters THEN <<>>
    ELSE << Head(url) >> \o _normalize_url(Tail(url))

\* The loop of _dedup_by_url from position k on. seen_urls is the dict, kept
\* as the sequence of its [key, article] items in insertion order.
RECURSIVE DedupUrlLoop(_, _, _)
DedupUrlLoop(articles, k, seen_urls) ==
    IF k > Len(articles) THEN seen_urls
    ELSE LET key == _normalize_url(articles[k].url)
         IN  IF key = <<>> \/ key \in { seen_urls[n].key : n \in 1..Len(seen_urls) }
             THEN DedupUrlLoop(articles, k + 1, seen_urls)
             ELSE DedupUrlLoop(articles, k + 1,
                               Append(seen_urls, [key |-> key, article |-> articles[k]]))

\* list(seen_urls.values())
_dedup_by_url(articles) ==
    LET seen_urls == DedupUrlLoop(articles, 1, <<>>)
    IN  [ n \in 1..Len(seen_urls) |-> seen_urls[n].article ]

----------------------------------------------------------------------------
(* Title deduplication: the pieces of one inner-loop iteration *)

\* bool(x.get("image_url")), len(x.get("description", ""))
ArticleScore(a) == << a.image_url # "", Len(a.description) >>

\* The comparison with the description length ahead of the image.
ScoreGreater_DescriptionFirst(other_score, current_score) ==
    \/ other_score[2] > current_score[2]
    \/ other_score[2] = current_score[2] /\ other_score[1] /\ ~current_score[1]

\* Python's tuple comparison other_score > current_score on (bool, int).
ScoreGreater(other_score, current_score) ==
    \/ other_score[1] /\ ~current_score[1]
    \/ other_score[1] = current_score[1] /\ other_score[2] > current_score[2]

\* if other_source and other_source != article.get("source", ""): append
AppendOtherSource(reported, other, current) ==
    IF other.source # "" /\ other.source # current.source
    THEN Append(reported, other.source)
    ELSE reported

\* if article.get("source") != articles[i].get("source"): append articles[i]'s
AppendFirstSource(reported, swapped_in, first) ==
    IF swapped_in.source # first.source
    THEN Append(reported, first.source)
    ELSE reported

----------------------------------------------------------------------------
(* Reranking *)

\* _score: (len(also_reported_by), published_at)
_score(a) == << Len(a.also_reported_by), a.published_at >>

\* The comparison of a sort without reverse=True.
ScoreLess_Ascending(x, y) ==
    \/ y[1] < x[1]
    \/ y[1] = x[1] /\ StrLess(y[2], x[2])

\* Python's tuple comparison x < y on (int, str).
ScoreLess(x, y) ==
    \/ x[1] < y[1]
    \/ x[1] = y[1] /\ StrLess(x[2], y[2])

\* sorted(..., reverse=True) is stable: equal keys keep their input order.
\* a goes before the first element whose key is strictly smaller.
RECURSIVE InsertDescending(_, _)
InsertDescending(sorted, a) ==
    IF sorted = <<>> THEN << a >>
    ELSE IF ScoreLess(_score(Head(sorted)), _score(a))
         THEN << a >> \o sorted
         ELSE << Head(sorted) >> \o InsertDescending(Tail(sorted), a)

RECURSIVE RerankLoop(_, _, _)
RerankLoop(articles, k, sorted) ==
    IF k > Len(articles) THEN sorted
    ELSE RerankLoop(articles, k + 1, InsertDescending(sorted, articles[k]))

_rerank(articles) == RerankLoop(articles, 1, <<>>)

----------------------------------------------------------------------------
(* execute: parameters and observability fields *)

\* (params.get("query") or "").strip()
Strip(s) == IF s = " " THEN "" ELSE s

DefaultLimit == 5
MinLimit == 1
MaxLimit == 8

\* max(1, min(8, int(params.get("limit") or 5))): an absent limit is None and
\* 0 is falsy, so both take the default.
Limit(p) ==
    LET requested == IF p.limit = <<>> \/ p.limit[1] = 0
                     THEN DefaultLimit ELSE p.limit[1]
    IN  Max(MinLimit, Min(MaxLimit, requested))

\* round(num / den, 2) in hundredths, den > 0, num >= 0. A tie goes to the even
\* neighbour, as round() does on a quotient that is exact in binary.
Round2(num, den) ==
    LET q == (100 * num) \div den
        r == (100 * num) % den
    IN  IF 2 * r < den THEN q
        ELSE IF 2 * r > den THEN q + 1
        ELSE IF q % 2 = 0 THEN q ELSE q + 1

\* The failure test without the check of fetch_error.
FetchFailed_EmptyList(error, articles) == articles = <<>>

\* if fetch_error and not raw_articles
FetchFailed(error, articles) == error # <<>> /\ articles = <<>>

\* ranked[:limit]
Truncate(articles, limit) == SubSeq(articles, 1, Min(limit, Len(articles)))

\* str(fetch_error)[:200]; the messages of the model are shorter than 200.
ErrorText(error) == IF error = <<>> THEN "None" ELSE error[1]

ErrorResponse(query, error) ==
    [ results |-> <<>>, count |-> 0, query |-> query, error |-> ErrorText(error),
      meta |-> <<>> ]

OkResponse(query, results, raw, deduped, retry) ==
    LET image_count == Cardinality({ k \in 1..Len(results) : results[k].image_url # "" })
        dedup_removed == Len(raw) - Len(deduped)
    IN  [ results |-> results,
          count   |-> Len(results),
          query   |-> query,
          meta    |-> [ article_count_raw       |-> Len(raw),
                        article_count_deduped   |-> Len(deduped),
                        dedup_ratio             |-> IF Len(raw) # 0
                                                    THEN Round2(dedup_removed, Len(raw))
                                                    ELSE 0,
                        image_availability_rate |-> IF results # <<>>
                                                    THEN Round2(image_count, Len(results))
                                                    ELSE 0,
                        retry_used              |-> retry,
                        source_diversity        |->
                            Cardinality({ results[k].source : k \in 1..Len(results) } \ {""}) ] ]

----------------------------------------------------------------------------
(* Inputs: the params of a call and the article lists the aggregator may   *)
(* deliver. _fetch_with_retry keeps only records with a non-empty title    *)
(* and normalizes each (_normalize_article), so a delivered list holds     *)
(* articles with a non-empty title and an empty also_reported_by.          *)

Art(title, source, published_at, description, url, image_url) ==
    [ title |-> title, source |-> source, published_at |-> published_at,
      description |-> description, url |-> url, image_url |-> image_url,
      also_reported_by |-> <<>> ]

SeqsUpTo(S, n) == UNION { [1..m -> S] : m \in 0..n }

\* Per-position values that keep the articles of a list unrelated.
PositionWord == << "st1", "st2", "st3", "st4", "st5", "st6", "st7", "st8", "st9" >>
PositionSource == << "S1", "S2", "S3", "S4", "S5", "S6", "S7", "S8", "S9" >>
PositionUrl(k) ==
    << << "https://n.example/1" >>, << "https://n.example/2" >>, << "https://n.example/3" >>,
       << "https://n.example/4" >>, << "https://n.example/5" >>, << "https://n.example/6" >>,
       << "https://n.example/7" >>, << "https://n.example/8" >>, << "https://n.example/9" >> >>[k]

Jan02 == << 0, 2 >>

\* Lists whose urls vary: empty, equal up to query, fragment or params, different.
UrlA == "https://a.example/x"
UrlB == "https://b.example/y"
Urls ==
    { <<>>, << UrlA >>, << UrlA, "?", "utm_source=x" >>, << UrlA, "#", "top" >>,
      << UrlA, ";", "p=1" >>, << UrlB >> }

UrlFeed(us) ==
    [ k \in 1..Len(us) |->
        Art(<< PositionWord[k] >>, PositionSource[k], Jan02, "", us[k], "") ]

\* Lists whose titles vary. Significant-word sets: {aaa,bbb}, {aaa,bbb,ccc},
\* {aaa,ccc}, {aaa} and {}.
TitleAB  == << "aaa", "bbb" >>
TitleABC == << "Aaa", "bbb,", "ccc" >>
TitleAC  == << "The", "aaa", "ccc" >>
TitleA   == << "aaa", "-", "it" >>
TitleNone == << "is", "it", "up" >>
Titles == { TitleAB, TitleABC, TitleAC, TitleA, TitleNone }

TitleFeed(cs) ==
    [ k \in 1..Len(cs) |->
        Art(cs[k][1], PositionSource[k], Jan02, "", PositionUrl(k), cs[k][2]) ]

\* Lists of near-duplicates whose sources, images and descriptions vary.
Qualities == { << "", "d" >>, << "", "dd" >>, << "img", "" >> }
Sources == { "A", "B", "C", "" }

SourceFeed(cs) ==
    [ k \in 1..Len(cs) |->
        Art(TitleAB, cs[k][1], Jan02, cs[k][2][2], PositionUrl(k), cs[k][2][1]) ]

\* Lists whose dates vary, with one title that repeats and one per position.
Dates == { <<>>, << 0, 1 >>, << 0, 5 >>, << 1 >> }

DateFeed(cs) ==
    [ k \in 1..Len(cs) |->
        Art(IF cs[k][1] THEN TitleAB ELSE << PositionWord[k] >>,
            PositionSource[k], cs[k][2], "", PositionUrl(k), "") ]

\* k unrelated articles.
Unrelated(k) ==
    [ n \in 1..k |->
        Art(<< PositionWord[n] >>, PositionSource[n], Jan02, "", PositionUrl(n), "") ]

LimitFeeds == { Unrelated(0), Unrelated(2), Unrelated(9) }

\* The five-article scenario: articles 2 and 4 share a url up to ?utm_source=x,
\* articles 1 and 3 carry the two Fed titles and come from different sources;
\* the images of 1 and 3 and the title of 4 vary.
FedTitle1 == << "Fed", "raises", "interest", "rates", "again" >>
FedTitle3 == << "Federal", "Reserve", "raises", "rates" >>

ScenarioFeeds ==
    { << Art(FedTitle1, "S1", Jan02, "", PositionUrl(1), c[1]),
         Art(<< PositionWord[2] >>, "S2", Jan02, "", << UrlA >>, ""),
         Art(FedTitle3, "S3", Jan02, "", PositionUrl(3), c[2]),
         Art(<< PositionWord[c[3]] >>, "S4", Jan02, "", << UrlA, "?", "utm_source=x" >>, ""),
         Art(<< PositionWord[5] >>, "S5", Jan02, "", PositionUrl(5), "") >>
      : c \in { "", "img" } \X { "", "img" } \X { 2, 4 } }

\* Eight articles that make three stories with 3, 1 and 1 cross-references,
\* dated 01-02, 01-05 and 01-01; first is the position of the big story.
Jan01 == << 0, 1 >>
Jan05 == << 0, 5 >>
StoryOf(n, title, date, first) ==
    [ k \in 1..n |-> Art(title, PositionSource[first + k - 1], date, "",
                         PositionUrl(first + k - 1), "") ]

RankExampleFeeds ==
    { StoryOf(4, TitleAB, Jan02, 1) \o StoryOf(2, << "st5" >>, Jan05, 5)
          \o StoryOf(2, << "st7" >>, Jan01, 7),
      StoryOf(2, << "st7" >>, Jan01, 1) \o StoryOf(2, << "st5" >>, Jan05, 3)
          \o StoryOf(4, TitleAB, Jan02, 5) }

Queries == { "", " ", "news" }
Limits == { <<>>, << 0 >>, << 1 >>, << 2 >>, << 8 >>, << 9 >>, << -3 >> }
Params == [ query : Queries, limit : Limits ]

\* Exceptions an attempt may raise.
Errors == { "timed out", "connection reset" }

----------------------------------------------------------------------------
(* The state machine of one call of execute *)

None == <<>>

Init ==
    /\ params \in Params
    /\ pc = "execute"
    /\ attempt = 0
    /\ retry_used = FALSE
    /\ last_error = None
    /\ raw_articles = <<>>
    /\ fetch_error = None
    /\ url_deduped = <<>>
    /\ i = 1
    /\ j = 1
    /\ used = {}
    /\ article = None
    /\ words_i = {}
    /\ also_reported_by = <<>>
    /\ deduplicated = <<>>
    /\ ranked = <<>>
    /\ response = None
    /\ rep = 0
    /\ members = {}
    /\ log = <<>>
    /\ outcomes = <<>>

fetch_vars == << attempt, retry_used, last_error, raw_articles, fetch_error,
                 outcomes >>
title_vars == << i, j, used, article, words_i, also_reported_by, deduplicated,
                 rep, members, log >>

\* execute, lines 50-52: an empty query returns at once.
ExecuteEmptyQuery ==
    /\ pc = "execute"
    /\ Strip(params.query) = ""
    /\ response' = [ results |-> <<>>, count |-> 0, query |-> "", meta |-> <<>> ]
    /\ pc' = "done"
    /\ UNCHANGED << params, fetch_vars, url_deduped, title_vars, ranked >>

\* execute, line 74: the call of _fetch_with_retry.
ExecuteFetch ==
    /\ pc = "execute"
    /\ Strip(params.query) # ""
    /\ pc' = "fetch"
    /\ UNCHANGED << params, fetch_vars, url_deduped, title_vars, ranked, response >>

\* One iteration of the loop of _fetch_with_retry in which GoogleNews raises.
FetchRaise ==
    /\ pc = "fetch"
    /\ attempt < 2
    /\ retry_used' = (attempt > 0)
    /\ \E e \in Errors : last_error' = << e >>
    /\ attempt' = attempt + 1
    /\ outcomes' = Append(outcomes, [ kind |-> "raised", result |-> None ])
    /\ UNCHANGED << params, pc, raw_articles, fetch_error, url_deduped, title_vars,
                    ranked, response >>

\* An iteration in which gn.result() is None and the loop ends with an empty list.
FetchNone_ReturnEmpty ==
    /\ pc = "fetch"
    /\ attempt < 2
    /\ retry_used' = (attempt > 0)
    /\ attempt' = attempt + 1
    /\ outcomes' = Append(outcomes, [ kind |-> "none", result |-> None ])
    /\ raw_articles' = <<>>
    /\ fetch_error' = None
    /\ pc' = "fetched"
    /\ UNCHANGED << params, last_error, url_deduped, title_vars, ranked, response >>

\* One iteration in which gn.result() is None: nothing is returned or recorded.
FetchNone ==
    /\ pc = "fetch"
    /\ attempt < 2
    /\ retry_used' = (attempt > 0)
    /\ attempt' = attempt + 1
    /\ outcomes' = Append(outcomes, [ kind |-> "none", result |-> None ])
    /\ UNCHANGED << params, pc, last_error, raw_articles, fetch_error, url_deduped,
                    title_vars, ranked, response >>

\* One iteration in which gn.result() is a list: return articles, retry_used, None.
\* Every list of the model is delivered to a first attempt of a call without a
\* limit; a retry, and a call with a limit, get the lists of unrelated articles
\* (no stage after the fetch reads attempt or retry_used other than to copy
\* retry_used into the response).
FetchOk ==
    /\ pc = "fetch"
    /\ attempt < 2
    /\ retry_used' = (attempt > 0)
    /\ attempt' = attempt + 1
    /\ \/ /\ params.limit = <<>>
          /\ attempt = 0
          /\ \/ \E us \in SeqsUpTo(Urls, MaxArticles) : raw_articles' = UrlFeed(us)
             \/ \E cs \in SeqsUpTo(Titles \X { "", "img" }, MaxArticles) :
                    raw_articles' = TitleFeed(cs)
             \/ \E cs \in SeqsUpTo(Sources \X Qualities, MaxArticles) :
                    raw_articles' = SourceFeed(cs)
             \/ \E cs \in SeqsUpTo(BOOLEAN \X Dates, MaxArticles) :
                    raw_articles' = DateFeed(cs)
             \/ \E articles \in ScenarioFeeds \cup RankExampleFeeds :
                    raw_articles' = articles
       \/ \E articles \in LimitFeeds : raw_articles' = articles
    /\ fetch_error' = None
    /\ outcomes' = Append(outcomes, [ kind |-> "result", result |-> raw_articles' ])
    /\ pc' = "fetched"
    /\ UNCHANGED << params, last_error, url_deduped, title_vars, ranked, response >>

\* The loop ran out: return [], retry_used, last_error.
FetchGiveUp ==
    /\ pc = "fetch"
    /\ attempt = 2
    /\ raw_articles' = <<>>
    /\ fetch_error' = last_error
    /\ pc' = "fetched"
    /\ UNCHANGED << params, attempt, retry_used, last_error, outcomes, url_deduped,
                    title_vars, ranked, response >>

\* execute, lines 77-83.
ExecuteFetchError ==
    /\ pc = "fetched"
    /\ FetchFailed(fetch_error, raw_articles)
    /\ response' = ErrorResponse(Strip(params.query), fetch_error)
    /\ pc' = "done"
    /\ UNCHANGED << params, fetch_vars, url_deduped, title_vars, ranked >>

\* execute, line 88, and the entry of _dedup_by_title (lines 248-249).
ExecuteDedupUrl ==
    /\ pc = "fetched"
    /\ ~FetchFailed(fetch_error, raw_articles)
    /\ url_deduped' = _dedup_by_url(raw_articles)
    /\ i' = 1
    /\ used' = {}
    /\ deduplicated' = <<>>
    /\ log' = <<>>
    /\ pc' = "title"
    /\ UNCHANGED << params, fetch_vars, j, article, words_i, also_reported_by,
                    rep, members, ranked, response >>

\* _dedup_by_title, lines 251-253: i is already merged into an earlier story.
TitleSkipUsed ==
    /\ pc = "title"
    /\ i <= Len(url_deduped)
    /\ i \in used
    /\ i' = i + 1
    /\ UNCHANGED << params, pc, fetch_vars, url_deduped, j, used, article, words_i,
                    also_reported_by, deduplicated, rep, members, log, ranked, response >>

\* _dedup_by_title, lines 255-258: article i opens a cluster.
TitleOpen ==
    /\ pc = "title"
    /\ i <= Len(url_deduped)
    /\ i \notin used
    /\ article' = url_deduped[i]
    /\ words_i' = _title_words(url_deduped[i].title)
    /\ also_reported_by' = url_deduped[i].also_reported_by
    /\ j' = i + 1
    /\ rep' = i
    /\ members' = { i }
    /\ pc' = "scan"
    /\ UNCHANGED << params, fetch_vars, url_deduped, i, used, deduplicated, log,
                    ranked, response >>

\* _dedup_by_title, lines 259-260: j is already merged.
ScanSkipUsed ==
    /\ pc = "scan"
    /\ j <= Len(url_deduped)
    /\ j \in used
    /\ j' = j + 1
    /\ UNCHANGED << params, pc, fetch_vars, url_deduped, i, used, article, words_i,
                    also_reported_by, deduplicated, rep, members, log, ranked, response >>

\* _dedup_by_title, lines 261-262: j is not similar enough.
ScanNoMerge ==
    /\ pc = "scan"
    /\ j <= Len(url_deduped)
    /\ j \notin used
    /\ ~OverHalf(_jaccard(words_i, _title_words(url_deduped[j].title)))
    /\ j' = j + 1
    /\ UNCHANGED << params, pc, fetch_vars, url_deduped, i, used, article, words_i,
                    also_reported_by, deduplicated, rep, members, log, ranked, response >>

\* _dedup_by_title, lines 262-278: j is merged and the representative stays.
ScanMergeKeep ==
    /\ pc = "scan"
    /\ j <= Len(url_deduped)
    /\ j \notin used
    /\ OverHalf(_jaccard(words_i, _title_words(url_deduped[j].title)))
    /\ ~ScoreGreater(ArticleScore(url_deduped[j]), ArticleScore(article))
    /\ used' = used \cup { j }
    /\ also_reported_by' = AppendOtherSource(also_reported_by, url_deduped[j], article)
    /\ members' = members \cup { j }
    /\ j' = j + 1
    /\ UNCHANGED << params, pc, fetch_vars, url_deduped, i, article, words_i,
                    deduplicated, rep, log, ranked, response >>

\* _dedup_by_title, lines 262-283: j is merged and becomes the representative.
ScanMergeSwap ==
    /\ pc = "scan"
    /\ j <= Len(url_deduped)
    /\ j \notin used
    /\ OverHalf(_jaccard(words_i, _title_words(url_deduped[j].title)))
    /\ ScoreGreater(ArticleScore(url_deduped[j]), ArticleScore(article))
    /\ used' = used \cup { j }
    /\ article' = [ url_deduped[j] EXCEPT !.also_reported_by = <<>> ]
    /\ also_reported_by' =
           AppendFirstSource(AppendOtherSource(also_reported_by, url_deduped[j], article),
                             url_deduped[j], url_deduped[i])
    /\ words_i' = _title_words(url_deduped[j].title)
    /\ rep' = j
    /\ members' = members \cup { j }
    /\ j' = j + 1
    /\ UNCHANGED << params, pc, fetch_vars, url_deduped, i, deduplicated, log,
                    ranked, response >>

\* _dedup_by_title, lines 285-286: the inner loop is over, the story is emitted.
TitleEmit ==
    /\ pc = "scan"
    /\ j > Len(url_deduped)
    /\ deduplicated' =
           Append(deduplicated, [ article EXCEPT !.also_reported_by = also_reported_by ])
    /\ log' = Append(log, [ rep |-> rep, members |-> members ])
    /\ i' = i + 1
    /\ pc' = "title"
    /\ UNCHANGED << params, fetch_vars, url_deduped, j, used, article, words_i,
                    also_reported_by, rep, members, ranked, response >>

\* _dedup_by_title, line 288, and execute, line 94.
ExecuteRerank ==
    /\ pc = "title"
    /\ i > Len(url_deduped)
    /\ ranked' = _rerank(deduplicated)
    /\ pc' = "ranked"
    /\ UNCHANGED << params, fetch_vars, url_deduped, title_vars, response >>

\* execute, lines 96-125.
ExecuteReturn ==
    /\ pc = "ranked"
    /\ response' = OkResponse(Strip(params.query), Truncate(ranked, Limit(params)),
                              raw_articles, deduplicated, retry_used)
    /\ pc' = "done"
    /\ UNCHANGED << params, fetch_vars, url_deduped, title_vars, ranked >>

Next ==
    \/ ExecuteEmptyQuery
    \/ ExecuteFetch
    \/ FetchRaise
    \/ FetchNone
    \/ FetchOk
    \/ FetchGiveUp
    \/ ExecuteFetchError
    \/ ExecuteDedupUrl
    \/ TitleSkipUsed
    \/ TitleOpen
    \/ ScanSkipUsed
    \/ ScanNoMerge
    \/ ScanMergeKeep
    \/ ScanMergeSwap
    \/ TitleEmit
    \/ ExecuteRerank
    \/ ExecuteReturn

Spec == Init /\ [][Next]_vars

----------------------------------------------------------------------------
(* Vocabulary of the properties, stated without the operators of the model *)

\* execute has returned a result without an error field for a non-empty query.
Returned == pc = "done" /\ "error" \notin DOMAIN response /\ response.query # ""

\* _dedup_by_url has run; _dedup_by_title has run.
UrlDone == pc \in { "title", "scan", "ranked" } \/ Returned
TitleDone == pc = "ranked" \/ Returned

\* The first position of a in s.
Pos(s, a) == CHOOSE n \in 1..Len(s) : s[n] = a /\ \A m \in 1..(n - 1) : s[m] # a

\* s keeps the relative order its elements have in t.
InOrderOf(s, t) ==
    \A p, q \in 1..Len(s) : p < q => Pos(t, s[p]) < Pos(t, s[q])

\* The url with everything from its first delimiter on dropped.
FirstOf(url, delimiters) ==
    IF \E n \in 1..Len(url) : url[n] \in delimiters
    THEN CHOOSE n \in 1..Len(url) :
             url[n] \in delimiters /\ \A m \in 1..(n - 1) : url[m] \notin delimiters
    ELSE Len(url) + 1
WithoutQueryFragment(url) == SubSeq(url, 1, FirstOf(url, { "?", "#" }) - 1)
SchemeHostPath(url) == SubSeq(url, 1, FirstOf(url, { "?", "#", ";" }) - 1)

\* The Jaccard similarity of the significant words of two titles is > 0.5.
SimilarTitles(s, t) ==
    LET a == _title_words(s)
        b == _title_words(t)
    IN  a # {} /\ b # {} /\ 2 * Cardinality(a \cap b) > Cardinality(a \cup b)

\* a's (has image, description length) is lexicographically greater than b's.
Better(a, b) ==
    \/ a.image_url # "" /\ b.image_url = ""
    \/ (a.image_url # "") = (b.image_url # "") /\ Len(a.description) > Len(b.description)

\* The earliest of the articles at positions ms that no other of them beats.
EarliestBest(articles, ms) ==
    CHOOSE m \in ms :
        /\ \A n \in ms : ~Better(articles[n], articles[m])
        /\ \A n \in ms : n < m => Better(articles[m], articles[n])

SameButReported(a, b) ==
    [ a EXCEPT !.also_reported_by = <<>> ] = [ b EXCEPT !.also_reported_by = <<>> ]

----------------------------------------------------------------------------
(* C1: URL deduplication keeps exactly the first article of every group of *)
(* equal urls, in input order.                                             *)

\* C1 as stated: among the articles whose urls are equal after dropping query
\* string and fragment, exactly one is in the output of _dedup_by_url, it is
\* the one with the smallest input index, and the output keeps the input order.
C1_OneSurvivorPerUrl ==
    UrlDone =>
        /\ \A k \in 1..Len(raw_articles) :
             LET same(a) == WithoutQueryFragment(a.url)
                                = WithoutQueryFragment(raw_articles[k].url)
                 first == CHOOSE m \in 1..Len(raw_articles) :
                              /\ same(raw_articles[m])
                              /\ \A n \in 1..(m - 1) : ~same(raw_articles[n])
             IN  /\ Cardinality({ n \in 1..Len(url_deduped) : same(url_deduped[n]) }) = 1
                 /\ raw_articles[first] \in Range(url_deduped)
        /\ InOrderOf(url_deduped, raw_articles)

\* What _dedup_by_url does guarantee: among the articles whose normalized url
\* (scheme, host and path; params, query string and fragment dropped) is equal
\* and not empty, exactly one is in the output, it is the one with the smallest
\* input index, and the output keeps the input order.
C1_OneSurvivorPerNonEmptyUrl ==
    UrlDone =>
        /\ \A k \in 1..Len(raw_articles) :
             LET same(a) == SchemeHostPath(a.url) = SchemeHostPath(raw_articles[k].url)
                 first == CHOOSE m \in 1..Len(raw_articles) :
                              /\ same(raw_articles[m])
                              /\ \A n \in 1..(m - 1) : ~same(raw_articles[n])
             IN  SchemeHostPath(raw_articles[k].url) # <<>> =>
                     /\ Cardinality({ n \in 1..Len(url_deduped) : same(url_deduped[n]) }) = 1
                     /\ raw_articles[first] \in Range(url_deduped)
        /\ Range(url_deduped) \subseteq Range(raw_articles)
        /\ InOrderOf(url_deduped, raw_articles)

\* A later article with a query string was dropped for an earlier one with the
\* same scheme, host and path, and an article after it survived.
UrlDuplicateDropped ==
    /\ pc = "title"
    /\ Len(raw_articles) = 3
    /\ Len(url_deduped) = 2
    /\ raw_articles[1].url = << UrlA >>
    /\ raw_articles[2].url = << UrlA, "?", "utm_source=x" >>
    /\ url_deduped = << raw_articles[1], raw_articles[3] >>

----------------------------------------------------------------------------
(* C2: articles with an empty normalized url                               *)

\* C2 as stated: every input article whose normalized url is empty is in the
\* output of _dedup_by_url, so k of them in the input give k in the output.
C2_EmptyUrlKept ==
    UrlDone =>
        /\ \A k \in 1..Len(raw_articles) :
             SchemeHostPath(raw_articles[k].url) = <<>>
                 => raw_articles[k] \in Range(url_deduped)
        /\ Cardinality({ n \in 1..Len(url_deduped) : SchemeHostPath(url_deduped[n].url) = <<>> })
             = Cardinality({ k \in 1..Len(raw_articles) :
                               SchemeHostPath(raw_articles[k].url) = <<>> })

----------------------------------------------------------------------------
(* C3: the similarity threshold of title deduplication                     *)

\* The articles at positions a and b of url_deduped ended in the same story.
SameStory(a, b) == \E k \in 1..Len(log) : { a, b } \subseteq log[k].members

\* C3 as stated: any two articles of the list are in the same story if their
\* similarity is > 0.5 and in different stories if it is <= 0.5.
C3_MergedIffSimilar ==
    TitleDone =>
        \A a, b \in 1..Len(url_deduped) :
            a < b => ( SameStory(a, b)
                         <=> SimilarTitles(url_deduped[a].title, url_deduped[b].title) )

\* C3 amended: an unconsumed article j that _dedup_by_title visits is merged
\* into the cluster being built if and only if its similarity with the
\* representative the cluster has at that moment is > 0.5.
C3_MergedIffSimilarToRepresentative ==
    [][ (pc = "scan" /\ j <= Len(url_deduped) /\ j \notin used) =>
            /\ j' = j + 1
            /\ (j \in used') <=> SimilarTitles(url_deduped[rep].title, url_deduped[j].title)
            /\ used' \subseteq used \cup { j } ]_vars

\* A story holds an article that is not similar to the story's first article:
\* it was merged on its similarity with a representative swapped in before.
C3_Witness ==
    /\ pc = "ranked"
    /\ \E k \in 1..Len(log) : \E a, b \in log[k].members :
           /\ a < b
           /\ \A m \in log[k].members : a <= m
           /\ ~SimilarTitles(url_deduped[a].title, url_deduped[b].title)

----------------------------------------------------------------------------
(* C4: no story lists its own source in also_reported_by                   *)

\* C4 as stated: no entry of an emitted article's also_reported_by equals the
\* article's own source.
C4_NoSelfReference ==
    \A k \in 1..Len(deduplicated) :
        deduplicated[k].source \notin Range(deduplicated[k].also_reported_by)

----------------------------------------------------------------------------
(* C5: cross-references of a cluster of three                              *)

\* The sources of the articles at positions ms other than r, by position.
RECURSIVE OtherSources(_, _, _, _)
OtherSources(articles, ms, r, k) ==
    IF k > Len(articles) THEN <<>>
    ELSE ( IF k \in ms /\ k # r THEN << articles[k].source >> ELSE <<>> )
             \o OtherSources(articles, ms, r, k + 1)

\* C5 as stated: a story merged from three articles with pairwise distinct
\* non-empty sources lists exactly the sources of the two articles that are not
\* its representative, in input order.
C5_TwoOtherSources ==
    TitleDone =>
        \A k \in 1..Len(log) :
            LET ms == log[k].members
                sources == { url_deduped[m].source : m \in ms }
            IN  ( Cardinality(ms) = 3 /\ Cardinality(sources) = 3 /\ "" \notin sources ) =>
                    deduplicated[k].also_reported_by
                        = OtherSources(url_deduped, ms, log[k].rep, 1)

----------------------------------------------------------------------------
(* C6: importance ranking                                                  *)

Count(a) == Len(a.also_reported_by)

\* a's (count, published_at) is greater than b's: more cross-references, or as
\* many and a later date.
RanksAbove(a, b) ==
    \/ Count(a) > Count(b)
    \/ Count(a) = Count(b) /\ StrLess(b.published_at, a.published_at)

\* C6: ranked is a permutation of the stories of title deduplication, in
\* descending order of (count, published_at) with the empty date lowest, and
\* stories with equal (count, published_at) keep the order title deduplication
\* gave them; stories with counts 3, 1, 1 dated 01-02, 01-05, 01-01 come out
\* in that order.
C6_RankedDescendingStable ==
    TitleDone =>
        /\ Len(ranked) = Len(deduplicated)
        /\ Range(ranked) = Range(deduplicated)
        /\ \A p, q \in 1..Len(ranked) :
             p < q =>
                 /\ ~RanksAbove(ranked[q], ranked[p])
                 /\ ~RanksAbove(ranked[p], ranked[q])
                        => Pos(deduplicated, ranked[p]) < Pos(deduplicated, ranked[q])
        /\ raw_articles \in RankExampleFeeds =>
               [ n \in 1..Len(ranked) |-> << Count(ranked[n]), ranked[n].published_at >> ]
                   = << << 3, Jan02 >>, << 1, Jan05 >>, << 1, Jan01 >> >>

\* The ranker moved the story with three cross-references from the last place
\* to the first, ahead of a later-dated story with one.
C6_Witness ==
    /\ pc = "ranked"
    /\ Len(deduplicated) = 3
    /\ Count(deduplicated[3]) = 3
    /\ ranked = << deduplicated[3], deduplicated[2], deduplicated[1] >>
    /\ StrLess(ranked[1].published_at, ranked[2].published_at)

----------------------------------------------------------------------------
(* C7: the five-article scenario                                           *)

\* The stories that carry one of the two Fed titles.
FedStories == { k \in 1..Len(deduplicated) : deduplicated[k].title \in { FedTitle1, FedTitle3 } }

\* C7 as stated: the scenario gives 3 stories, the Fed story carries exactly
\* one entry in also_reported_by, and the deduplicated count is the raw count
\* minus 2.
C7_ScenarioThreeStories ==
    ( Returned /\ raw_articles \in ScenarioFeeds ) =>
        /\ Len(deduplicated) = 3
        /\ \E k \in FedStories : Len(deduplicated[k].also_reported_by) = 1
        /\ response.meta.article_count_deduped = response.meta.article_count_raw - 2

\* C7 amended: the scenario gives 4 stories: the url duplicate is removed, the
\* two Fed titles (similarity 2/7) stay two stories, no story carries an entry
\* in also_reported_by, and the deduplicated count is the raw count minus 1.
C7_ScenarioFourStories ==
    ( Returned /\ raw_articles \in ScenarioFeeds ) =>
        /\ Len(deduplicated) = 4
        /\ Cardinality(FedStories) = 2
        /\ \A k \in 1..Len(deduplicated) : deduplicated[k].also_reported_by = <<>>
        /\ response.meta.article_count_raw = 5
        /\ response.meta.article_count_deduped = response.meta.article_count_raw - 1
        /\ url_deduped = << raw_articles[1], raw_articles[2], raw_articles[3], raw_articles[5] >>

\* execute returned for the scenario.
C7_Witness ==
    /\ Returned
    /\ raw_articles \in ScenarioFeeds
    /\ raw_articles[3].image_url # ""
    /\ response.count = 4

----------------------------------------------------------------------------
(* C8: the representative of a cluster                                     *)

\* C8: whenever an article j is merged, it becomes the representative exactly
\* if its (has image, description length) is lexicographically greater than
\* the current representative's; so the representative of a cluster, while it
\* is built and when it is emitted, is the earliest of its members with the
\* greatest pair, and an article with an image beats one without whatever the
\* description lengths.
C8_RepresentativeEarliestBest ==
    /\ pc = "scan" =>
           /\ rep = EarliestBest(url_deduped, members)
           /\ SameButReported(article, url_deduped[rep])
    /\ \A k \in 1..Len(deduplicated) :
           /\ log[k].rep = EarliestBest(url_deduped, log[k].members)
           /\ SameButReported(deduplicated[k], url_deduped[log[k].rep])
           /\ \A m \in log[k].members :
                  ( url_deduped[m].image_url = "" /\ deduplicated[k].image_url # "" )
                  \/ ( url_deduped[m].image_url # "" ) = ( deduplicated[k].image_url # "" )

\* A story was emitted whose representative has an image and a shorter
\* description than an earlier member without an image.
C8_Witness ==
    /\ pc = "ranked"
    /\ \E k \in 1..Len(log) : \E m \in log[k].members :
           /\ m < log[k].rep
           /\ url_deduped[m].image_url = ""
           /\ deduplicated[k].image_url # ""
           /\ Len(url_deduped[m].description) > Len(deduplicated[k].description)

----------------------------------------------------------------------------
(* C9: empty input                                                         *)

\* The fetch delivered an empty list without an error.
EmptyDelivered ==
    /\ pc \notin { "execute", "fetch" }
    /\ Strip(params.query) # ""
    /\ raw_articles = <<>>
    /\ fetch_error = <<>>

\* C9: when the fetch delivers an empty list without an error, every stage
\* runs (no state of the call is stuck) and execute returns empty results,
\* count 0, raw and deduplicated counts 0, dedup_ratio 0 and no error field.
C9_EmptyInput ==
    EmptyDelivered =>
        /\ pc # "done" => ENABLED Next
        /\ url_deduped = <<>> /\ deduplicated = <<>> /\ ranked = <<>>
        /\ pc = "done" =>
               /\ "error" \notin DOMAIN response
               /\ response.results = <<>>
               /\ response.count = 0
               /\ response.meta.article_count_raw = 0
               /\ response.meta.article_count_deduped = 0
               /\ response.meta.dedup_ratio = 0

\* execute returned for an empty list delivered by the first attempt.
C9_Witness ==
    /\ pc = "done"
    /\ EmptyDelivered
    /\ attempt = 1
    /\ response.count = 0

----------------------------------------------------------------------------
(* C10: truncation to the limit                                            *)

\* C10 as stated: the results are the first min(L, n) ranked stories, where n
\* is the number of stories and L the requested limit clamped to 1..8, 5 when
\* absent; count is the length of the results and exceeds neither 8 nor
\* article_count_deduped.
C10_FirstLimitRanked ==
    Returned =>
        LET requested == IF params.limit = <<>> THEN 5 ELSE params.limit[1]
            L == IF requested < 1 THEN 1 ELSE IF requested > 8 THEN 8 ELSE requested
            n == Len(deduplicated)
        IN  /\ response.results = SubSeq(ranked, 1, IF L < n THEN L ELSE n)
            /\ response.count = Len(response.results)
            /\ response.count <= 8
            /\ response.count <= response.meta.article_count_deduped

----------------------------------------------------------------------------
(* C11: the source a swap of the representative records                    *)

\* The list a merge of article b leaves before any swap: b's source is added
\* when it is not empty and differs from the source of the representative a.
WithMerged(reported, a, b) ==
    IF b.source # "" /\ b.source # a.source THEN Append(reported, b.source) ELSE reported

\* C11 as stated: whenever article j replaces the representative of a cluster,
\* the source appended to also_reported_by is the source of the representative
\* that was current just before the swap, and it is appended only if it differs
\* from the source of the new representative, after any number of swaps.
C11_SwapAppendsPreviousSource ==
    [][ (pc = "scan" /\ rep' # rep) =>
            LET previous == url_deduped[rep]
                new      == url_deduped[rep']
                merged   == WithMerged(also_reported_by, previous, new)
            IN  also_reported_by' =
                    IF previous.source # new.source
                    THEN Append(merged, previous.source)
                    ELSE merged ]_vars

\* What a swap does record: the source of the article that opened the cluster,
\* when it differs from the source of the new representative.
C11_SwapAppendsFirstSource ==
    [][ (pc = "scan" /\ rep' # rep) =>
            LET previous == url_deduped[rep]
                new      == url_deduped[rep']
                first    == url_deduped[i]
                merged   == WithMerged(also_reported_by, previous, new)
            IN  also_reported_by' =
                    IF first.source # new.source
                    THEN Append(merged, first.source)
                    ELSE merged ]_vars

\* A second swap in one cluster: the representative it replaces is not the
\* article that opened the cluster, and the two have different sources.
SecondSwapDone ==
    /\ pc = "scan"
    /\ Cardinality(members) = 3
    /\ rep = j - 1
    /\ rep > i + 1
    /\ url_deduped[i].source # url_deduped[i + 1].source

----------------------------------------------------------------------------
(* C12: the retry protocol of the fetch                                    *)

\* _fetch_with_retry has returned to execute.
FetchReturned ==
    \/ pc \in { "fetched", "title", "scan", "ranked" }
    \/ pc = "done" /\ response.query # ""

\* The attempts that yielded a result.
Yielding == { k \in 1..Len(outcomes) : outcomes[k].kind = "result" }

\* C12: at most two fetch attempts are made; the second is made if and only if
\* the first raised or had no result; the articles of the first attempt that
\* yields a result are returned without an error; retry_used is true exactly
\* when a second attempt was made; an error is returned, and execute answers
\* with empty results, count 0 and an error field, only when no attempt yielded
\* a result.
C12_RetryProtocol ==
    /\ Len(outcomes) <= 2
    /\ Len(outcomes) = 2 => outcomes[1].kind # "result"
    /\ FetchReturned =>
           /\ Len(outcomes) >= 1
           /\ outcomes[1].kind # "result" => Len(outcomes) = 2
           /\ retry_used <=> Len(outcomes) = 2
           /\ Yielding # {} =>
                  /\ raw_articles = outcomes[CHOOSE k \in Yielding :
                                                 \A m \in Yielding : k <= m].result
                  /\ fetch_error = <<>>
           /\ fetch_error # <<>> => Yielding = {}
    /\ (pc = "done" /\ response.query # "") =>
           /\ "error" \in DOMAIN response =>
                  /\ Yielding = {}
                  /\ response.results = <<>>
                  /\ response.count = 0
           /\ Yielding # {} =>
                  /\ "error" \notin DOMAIN response
                  /\ response.meta.retry_used <=> Len(outcomes) = 2
                  /\ response.meta.article_count_raw =
                         Len(outcomes[Len(outcomes)].result)

\* execute has answered with the articles of a second attempt, made after the
\* first one raised.
C12_Witness ==
    /\ pc = "done"
    /\ Len(outcomes) = 2
    /\ outcomes[1].kind = "raised"
    /\ outcomes[2].kind = "result"
    /\ outcomes[2].result # <<>>
    /\ response.count > 0
    /\ response.meta.retry_used

\* execute has answered with an error after two attempts without a result.
FetchErrorAnswered ==
    /\ pc = "done"
    /\ "error" \in DOMAIN response
    /\ Len(outcomes) = 2

\* Two attempts without a result and without an exception: no error is returned.
NoResultNoError ==
    /\ pc = "done"
    /\ Len(outcomes) = 2
    /\ outcomes[1].kind = "none"
    /\ outcomes[2].kind = "none"
    /\ "error" \notin DOMAIN response

====
